---- MODULE Spec2Model ----
(***************************************************************************)
(* Model of spiropredict.calculators.Calculator: a lookup table loaded at  *)
(* construction and six query operations (predict_fev1, predict_fvc,       *)
(* predict_fev1fvc, zscore_fev1, zscore_fvc, zscore_fev1fvc).              *)
(*                                                                         *)
(* Numbers.  The code computes in IEEE doubles through numpy.  A double is *)
(* modelled as a record [k, v]:                                            *)
(*     k = "fin"  a finite number, v its value in units of 10^-4           *)
(*     k = "inf"  an infinity, v = 1 or -1 its sign                        *)
(*     k = "nan"  not-a-number                                             *)
(* and Python's None as k = "none".  Finite arithmetic is fixed point on a *)
(* 10^-4 grid (TLC integers are 32 bit, so products are split); the grid   *)
(* plays the part of the double's rounding.  The special values follow     *)
(* numpy's default error state, in which log, exp, division and power      *)
(* warn and return inf or nan and never raise.                             *)
(***************************************************************************)
EXTENDS Integers, Sequences, FiniteSets, TLC

ONE == 10^4

Fin(v) == [k |-> "fin", v |-> v]
NaN    == [k |-> "nan", v |-> 0]
PInf   == [k |-> "inf", v |-> 1]
NInf   == [k |-> "inf", v |-> -1]
None   == [k |-> "none", v |-> 0]
Zero   == Fin(0)

IsFin(x) == x.k = "fin"
IsNaN(x) == x.k = "nan"
IsInf(x) == x.k = "inf"

Abs(n) == IF n < 0 THEN -n ELSE n
Sgn(n) == IF n < 0 THEN -1 ELSE IF n = 0 THEN 0 ELSE 1

\* sign of a double: -1, 0, 1 (nan has none and is never asked)
SignOf(x) == IF IsInf(x) THEN x.v ELSE Sgn(x.v)

\* a Python int as a double
FromInt(n) == Fin(n * ONE)

(***************************************************************************)
(* Fixed point kernels on integers.                                        *)
(***************************************************************************)
\* c7 * x / 10^7 : a source literal c7 (in units of 10^-7) times a grid value
MulC7(c7, x) ==
    LET ch == Abs(c7) \div 10000
        cl == Abs(c7) % 10000
        ax == Abs(x)
    IN  Sgn(c7) * Sgn(x) * ((ch * ax + (cl * ax) \div 10000) \div 1000)

\* a * b / 10^4 : product of two grid values
MulFix(a, b) ==
    LET ah == Abs(a) \div 100
        al == Abs(a) % 100
        ab == Abs(b)
    IN  Sgn(a) * Sgn(b) * ((ah * ab + (al * ab) \div 100) \div 100)

\* a / b on the grid, b # 0
DivFix(a, b) ==
    LET q  == Abs(a) \div Abs(b)
        r  == Abs(a) % Abs(b)
    IN  Sgn(a) * Sgn(b) * (q * ONE + (r * ONE) \div Abs(b))

\* exp(r) for 0 <= r < ln 2, by its Taylor series
RECURSIVE ExpSeries(_, _, _, _)
ExpSeries(r, n, term, acc) ==
    IF term = 0 \/ n > 12 THEN acc
    ELSE LET t == (term * r) \div (n * ONE)
         IN  ExpSeries(r, n + 1, t, acc + t)

RECURSIVE Pow2(_)
Pow2(n) == IF n = 0 THEN 1 ELSE 2 * Pow2(n - 1)

\* exp(x) on the grid: x = q ln 2 + r, exp(x) = 2^q exp(r)
ExpFix(x) ==
    LET q == (x * 1000) \div 6931472
        r == x - (q * 6931472) \div 1000
        e == ExpSeries(r, 1, ONE, ONE)
    IN  IF q >= 0 THEN e * Pow2(q)
        ELSE IF q < -30 THEN 0          \* below the grid: underflow to 0
        ELSE e \div Pow2(-q)

\* the q with 2^q <= x / ONE < 2^(q+1), x > 0
RECURSIVE Log2Floor(_)
Log2Floor(x) ==
    IF x >= 2 * ONE THEN 1 + Log2Floor(x \div 2)
    ELSE IF x < ONE THEN Log2Floor(2 * x) - 1
    ELSE 0

\* atanh(y) = y + y^3/3 + y^5/5 + ..., y and the result in units of 10^-5
RECURSIVE AtanhSeries(_, _, _, _)
AtanhSeries(y2, n, pw, acc) ==
    IF pw = 0 \/ n > 15 THEN acc
    ELSE AtanhSeries(y2, n + 2, (pw * y2) \div 100000, acc + pw \div n)

\* ln(x) on the grid, x > 0: x = 2^q m, 1 <= m < 2, ln m = 2 atanh((m-1)/(m+1))
LnFix(x) ==
    LET q  == Log2Floor(x)
        m  == IF q >= 0 THEN x \div Pow2(q) ELSE x * Pow2(-q)
        y  == ((m - ONE) * 100000) \div (m + ONE)
        y2 == (y * y) \div 100000
        s  == AtanhSeries(y2, 1, y, 0)
    IN  (q * 6931472 + 200 * s) \div 1000

(***************************************************************************)
(* Doubles: numpy's arithmetic on the record values.                       *)
(***************************************************************************)
\* a float literal of the source, given in units of 10^-7
Lit(c7) == Fin(Sgn(c7) * (Abs(c7) \div 1000))

\* np.log: log(0) = -inf, log(x < 0) = nan (RuntimeWarning, no exception)
Log(x) ==
    IF IsNaN(x) THEN NaN
    ELSE IF IsInf(x) THEN (IF x.v > 0 THEN PInf ELSE NaN)
    ELSE IF x.v < 0 THEN NaN
    ELSE IF x.v = 0 THEN NInf
    ELSE Fin(LnFix(x.v))

\* np.exp: exp(-inf) = 0, exp(inf) = inf
Exp(x) ==
    IF IsNaN(x) THEN NaN
    ELSE IF IsInf(x) THEN (IF x.v > 0 THEN PInf ELSE Zero)
    ELSE Fin(ExpFix(x.v))

Neg(x) == IF IsNaN(x) THEN NaN ELSE [k |-> x.k, v |-> -x.v]

Add(a, b) ==
    IF IsNaN(a) \/ IsNaN(b) THEN NaN
    ELSE IF IsInf(a) /\ IsInf(b) THEN (IF a.v = b.v THEN a ELSE NaN)
    ELSE IF IsInf(a) THEN a
    ELSE IF IsInf(b) THEN b
    ELSE Fin(a.v + b.v)

Sub(a, b) == Add(a, Neg(b))

\* literal * double, the literal c7 nonzero and in units of 10^-7
CMul(c7, x) ==
    IF IsNaN(x) THEN NaN
    ELSE IF IsInf(x) THEN [k |-> "inf", v |-> Sgn(c7) * x.v]
    ELSE Fin(MulC7(c7, x.v))

Mul(a, b) ==
    IF IsNaN(a) \/ IsNaN(b) THEN NaN
    ELSE IF IsInf(a) \/ IsInf(b)
         THEN (IF SignOf(a) = 0 \/ SignOf(b) = 0 THEN NaN
               ELSE [k |-> "inf", v |-> SignOf(a) * SignOf(b)])
    ELSE Fin(MulFix(a.v, b.v))

\* true division of doubles: x/0 = +-inf, 0/0 = nan (RuntimeWarning, no exception)
Div(a, b) ==
    IF IsNaN(a) \/ IsNaN(b) THEN NaN
    ELSE IF IsInf(a) THEN (IF IsInf(b) THEN NaN
                           ELSE [k |-> "inf", v |-> a.v * (IF b.v < 0 THEN -1 ELSE 1)])
    ELSE IF IsInf(b) THEN Zero
    ELSE IF b.v = 0 THEN (IF a.v = 0 THEN NaN ELSE [k |-> "inf", v |-> Sgn(a.v)])
    ELSE Fin(DivFix(a.v, b.v))

\* r ** l for a base r that is nan or >= 0 (the base is measured / m)
Pow(r, l) ==
    IF IsFin(l) /\ l.v = 0 THEN Fin(ONE)                 \* x ** 0 = 1, also for nan
    ELSE IF IsFin(r) /\ r.v = ONE THEN Fin(ONE)          \* 1 ** y = 1, also for nan
    ELSE IF IsNaN(r) \/ IsNaN(l) THEN NaN
    ELSE IF IsFin(r) /\ r.v < 0 THEN NaN
    ELSE IF IsInf(l)
         THEN (IF IsInf(r) \/ r.v > ONE
               THEN (IF l.v > 0 THEN PInf ELSE Zero)
               ELSE (IF l.v > 0 THEN Zero ELSE PInf))
    ELSE IF IsInf(r) THEN (IF l.v > 0 THEN PInf ELSE Zero)
    ELSE IF r.v = 0 THEN (IF l.v > 0 THEN Zero ELSE PInf)
    ELSE Fin(ExpFix(MulFix(l.v, LnFix(r.v))))

\* variant of IsPositive that lets zero through (>= for >)
IsPositive_OrZero(x) ==
    /\ x # None
    /\ ~IsNaN(x)
    /\ x.v >= 0

\* the Python test  (measured is not None) and (measured > 0)
IsPositive(x) ==
    /\ x # None
    /\ ~IsNaN(x)
    /\ x.v > 0

(***************************************************************************)
(* The calculator.  How a call ends: it returns a double, or it raises a   *)
(* ValueError with a message (val is the value the message carries).       *)
(***************************************************************************)
Return(v)      == [st |-> "return", msg |-> "", val |-> v]
Raise(msg, v)  == [st |-> "ValueError", msg |-> msg, val |-> v]

NotInLookup == "Participant value not present in lookup"
BadSex      == "sex (male) should be 0 or 1."

\* One row of the csv file: the three spline columns.
Row(m, s, l) == [M_Spline |-> m, S_Spline |-> s, L_Spline |-> l]

\* what the try block catches: the key is not in the dict
KeyError == Row(None, None, None)

\* variant of Lookup that falls back to the row of the year before
Lookup_Nearest(table, male, param, age) ==
    IF <<male, param, age>> \in DOMAIN table
    THEN table[<<male, param, age>>]
    ELSE IF <<male, param, age - 1>> \in DOMAIN table
    THEN table[<<male, param, age - 1>>]
    ELSE KeyError

\* self.lookup_table[(male, param, age)]: the row under exactly this key
Lookup(table, male, param, age) ==
    IF <<male, param, age>> \in DOMAIN table
    THEN table[<<male, param, age>>]
    ELSE KeyError

\* Every literal below is the source's, written in units of 10^-7.  In the
\* z-score operations the test of the measured value follows the sex branch
\* (it is written once after the branch in the source, here under each arm).
\* variant of predict_fev1 that tests the sex code before the lookup
predict_fev1_SexFirst(table, male, age, height) ==
    IF male # 1 /\ male # 0
    THEN Raise(BadSex, None)
    ELSE
    LET splines == Lookup(table, male, "fev1", age) IN
    IF splines = KeyError
    THEN Raise(NotInLookup, None)
    ELSE LET m_spline == splines.M_Spline
             s_spline == splines.S_Spline
             l_spline == splines.L_Spline
         IN  IF male = 1
             THEN Return(Exp(Add(Sub(Add(Lit(-113991080), CMul(24626640, Log(FromInt(height)))),
                                   CMul(113940, Log(FromInt(age)))), m_spline)))
             ELSE IF male = 0
             THEN Return(Exp(Add(Sub(Add(Lit(-109016890), CMul(23859280, Log(FromInt(height)))),
                                   CMul(763860, Log(FromInt(age)))), m_spline)))
             ELSE Raise(BadSex, None)

predict_fev1(table, male, age, height) ==
    LET splines == Lookup(table, male, "fev1", age) IN
    IF splines = KeyError
    THEN Raise(NotInLookup, None)
    ELSE LET m_spline == splines.M_Spline
             s_spline == splines.S_Spline
             l_spline == splines.L_Spline
         IN  IF male = 1
             THEN Return(Exp(Add(Sub(Add(Lit(-113991080), CMul(24626640, Log(FromInt(height)))),
                                   CMul(113940, Log(FromInt(age)))), m_spline)))
             ELSE IF male = 0
             THEN Return(Exp(Add(Sub(Add(Lit(-109016890), CMul(23859280, Log(FromInt(height)))),
                                   CMul(763860, Log(FromInt(age)))), m_spline)))
             ELSE Raise(BadSex, None)

predict_fvc(table, male, age, height) ==
    LET splines == Lookup(table, male, "fvc", age) IN
    IF splines = KeyError
    THEN Raise(NotInLookup, None)
    ELSE LET m_spline == splines.M_Spline
             s_spline == splines.S_Spline
             l_spline == splines.L_Spline
         IN  IF male = 1
             THEN Return(Exp(Add(Add(Add(Lit(-126291310), CMul(27274210, Log(FromInt(height)))),
                                   CMul(91740, Log(FromInt(age)))), m_spline)))
             ELSE IF male = 0
             THEN Return(Exp(Add(Sub(Add(Lit(-120559010), CMul(26215790, Log(FromInt(height)))),
                                   CMul(359750, Log(FromInt(age)))), m_spline)))
             ELSE Raise(BadSex, None)

\* variant of predict_fev1fvc that evaluates the FVC key and equations
predict_fev1fvc_AsFvc(table, male, age, height) ==
    predict_fvc(table, male, age, height)

predict_fev1fvc(table, male, age, height) ==
    LET splines == Lookup(table, male, "fev1fvc", age) IN
    IF splines = KeyError
    THEN Raise(NotInLookup, None)
    ELSE LET m_spline == splines.M_Spline
             s_spline == splines.S_Spline
             l_spline == splines.L_Spline
         IN  IF male = 1
             THEN Return(Exp(Add(Sub(Sub(Lit(10226080), CMul(2185920, Log(FromInt(height)))),
                                   CMul(275840, Log(FromInt(age)))), m_spline)))
             ELSE IF male = 0
             THEN Return(Exp(Add(Sub(Sub(Lit(9189568), CMul(1840671, Log(FromInt(height)))),
                                   CMul(461306, Log(FromInt(age)))), m_spline)))
             ELSE Raise(BadSex, None)

zscore_fev1(table, male, age, height, measured_fev1) ==
    LET splines == Lookup(table, male, "fev1", age) IN
    IF splines = KeyError
    THEN Raise(NotInLookup, None)
    ELSE LET m_spline == splines.M_Spline
             s_spline == splines.S_Spline
             l_spline == splines.L_Spline
         IN  IF male = 1
             THEN LET m == Exp(Add(Sub(Add(Lit(-113991080), CMul(24626640, Log(FromInt(height)))),
                                     CMul(113940, Log(FromInt(age)))), m_spline))
                      s == Exp(Add(Add(Lit(-22562780), CMul(807290, Log(FromInt(age)))), s_spline))
                      l == Lit(12270300)
                  IN  IF IsPositive(measured_fev1)
                      THEN Return(Div(Sub(Pow(Div(measured_fev1, m), l), Fin(ONE)), Mul(l, s)))
                      ELSE Raise("Invalid measured_fev1", measured_fev1)
             ELSE IF male = 0
             THEN LET m == Exp(Add(Sub(Add(Lit(-109016890), CMul(23859280, Log(FromInt(height)))),
                                     CMul(763860, Log(FromInt(age)))), m_spline))
                      s == Exp(Add(Add(Lit(-23640470), CMul(1294020, Log(FromInt(age)))), s_spline))
                      l == Lit(12138800)
                  IN  IF IsPositive(measured_fev1)
                      THEN Return(Div(Sub(Pow(Div(measured_fev1, m), l), Fin(ONE)), Mul(l, s)))
                      ELSE Raise("Invalid measured_fev1", measured_fev1)
             ELSE Raise(BadSex, None)

zscore_fvc(table, male, age, height, measured_fvc) ==
    LET splines == Lookup(table, male, "fvc", age) IN
    IF splines = KeyError
    THEN Raise(NotInLookup, None)
    ELSE LET m_spline == splines.M_Spline
             s_spline == splines.S_Spline
             l_spline == splines.L_Spline
         IN  IF male = 1
             THEN LET m == Exp(Add(Add(Add(Lit(-126291310), CMul(27274210, Log(FromInt(height)))),
                                     CMul(91740, Log(FromInt(age)))), m_spline))
                      s == Exp(Add(Add(Lit(-21955950), CMul(684660, Log(FromInt(age)))), s_spline))
                      l == Lit(9346000)
                  IN  IF IsPositive(measured_fvc)
                      THEN Return(Div(Sub(Pow(Div(measured_fvc, m), l), Fin(ONE)), Mul(l, s)))
                      ELSE Raise("Invalid measured_fvc", measured_fvc)
             ELSE IF male = 0
             THEN LET m == Exp(Add(Sub(Add(Lit(-120559010), CMul(26215790, Log(FromInt(height)))),
                                     CMul(359750, Log(FromInt(age)))), m_spline))
                      s == Exp(Add(Add(Lit(-23101480), CMul(1204280, Log(FromInt(age)))), s_spline))
                      l == Lit(8990000)
                  IN  IF IsPositive(measured_fvc)
                      THEN Return(Div(Sub(Pow(Div(measured_fvc, m), l), Fin(ONE)), Mul(l, s)))
                      ELSE Raise("Invalid measured_fvc", measured_fvc)
             ELSE Raise(BadSex, None)

zscore_fev1fvc(table, male, age, height, measured_fev1fvc) ==
    LET splines == Lookup(table, male, "fev1fvc", age) IN
    IF splines = KeyError
    THEN Raise(NotInLookup, None)
    ELSE LET m_spline == splines.M_Spline
             s_spline == splines.S_Spline
             l_spline == splines.L_Spline
         IN  IF male = 1
             THEN LET m == Exp(Add(Sub(Sub(Lit(10226080), CMul(2185920, Log(FromInt(height)))),
                                     CMul(275840, Log(FromInt(age)))), m_spline))
                      s == Exp(Add(Add(Lit(-28820240), CMul(688890, Log(FromInt(age)))), s_spline))
                      l == Sub(Lit(38243000), CMul(3328000, Log(FromInt(age))))
                  IN  IF IsPositive(measured_fev1fvc)
                      THEN Return(Div(Sub(Pow(Div(measured_fev1fvc, m), l), Fin(ONE)), Mul(l, s)))
                      ELSE Raise("Invalid measured_fev1fvc", measured_fev1fvc)
             ELSE IF male = 0
             THEN LET m == Exp(Add(Sub(Sub(Lit(9189568), CMul(1840671, Log(FromInt(height)))),
                                     CMul(461306, Log(FromInt(age)))), m_spline))
                      s == Exp(Add(Add(Lit(-31715820), CMul(1443580, Log(FromInt(age)))), s_spline))
                      l == Sub(Lit(66490000), CMul(9920000, Log(FromInt(age))))
                  IN  IF IsPositive(measured_fev1fvc)
                      THEN Return(Div(Sub(Pow(Div(measured_fev1fvc, m), l), Fin(ONE)), Mul(l, s)))
                      ELSE Raise("Invalid measured_fev1fvc", measured_fev1fvc)
             ELSE Raise(BadSex, None)

(***************************************************************************)
(* State.  lookup_table is the calculator's only attribute.  last records  *)
(* the latest call and how it ended.  hist is a history variable kept by   *)
(* SpecH only: the first call of the behaviour, the number of calls made,  *)
(* and whether a call between the first and the latest one failed.         *)
(***************************************************************************)
VARIABLES lookup_table, last, hist

vars == <<lookup_table, last, hist>>

Params == {"fev1", "fvc", "fev1fvc"}

PredictOps == {"predict_fev1", "predict_fvc", "predict_fev1fvc"}
ZscoreOps  == {"zscore_fev1", "zscore_fvc", "zscore_fev1fvc"}

ParamOf(op) ==
    IF op \in {"predict_fev1", "zscore_fev1"} THEN "fev1"
    ELSE IF op \in {"predict_fvc", "zscore_fvc"} THEN "fvc"
    ELSE "fev1fvc"

\* sex codes a caller passes: 0 .. MaxSex (0 and 1 are the recognized ones)
MaxSex == 2
Sexes  == 0 .. MaxSex

\* an age at which the male FEV1/FVC skewness 3.8243 - 0.3328 ln(age) is 0 on
\* the grid (in doubles it is exactly 0.0 at, for one, age 97859.30449669356)
AgeLZero ==
    CHOOSE a \in 97850 .. 97880 :
       Sub(Lit(38243000), CMul(3328000, Log(FromInt(a)))) = Zero

\* ages a caller passes; 51 is in no table and lies next to 50
Ages == {50, 51, AgeLZero}

\* heights (cm) a caller passes
Heights == {-170, 0, 170}

\* measured values a caller passes: absent, zero, negative, just above zero, ordinary
Measurements == {None, Zero, Fin(-ONE), Fin(1), Fin(8240)}

\* M Spline values are those the repository's tests imply for the packaged file
\* (2.478 L, 3.471 L and 0.824 at the tests' subjects); S and L Spline are examples.
RowFor(param) ==
    IF param = "fev1" THEN Row(Fin(-3620), Fin(512), Zero)
    ELSE IF param = "fvc" THEN Row(Fin(-1735), Fin(-277), Zero)
    ELSE Row(Fin(-98), Fin(831), Zero)

\* df_lookup.to_dict(orient='index'): (Male, Param, Age) -> row
TableOver(keys) ==
    [key \in keys |-> RowFor(key[2])]

\* a file like the packaged one (sex codes 0 and 1 only), and a custom file
\* that also has rows under other sex codes and male rows of age AgeLZero
PackagedLike == TableOver({0, 1} \X Params \X {50})
CustomFile   == TableOver((Sexes \X Params \X {50}) \cup ({1} \X Params \X {AgeLZero}))

NoCall == [op |-> "none", male |-> 0, age |-> 0, height |-> 0,
           measured |-> None, out |-> [st |-> "none", msg |-> "", val |-> None]]

Call(op, male, age, height, measured, out) ==
    [op |-> op, male |-> male, age |-> age, height |-> height,
     measured |-> measured, out |-> out]

\* Calculator.__init__: the table is read from the file once
Init ==
    /\ lookup_table \in {PackagedLike, CustomFile}
    /\ last = NoCall
    /\ hist = [first |-> NoCall, calls |-> 0, between |-> FALSE]

\* the table with a row stored under a key that was missing
WithRow(table, key, row) ==
    [k \in DOMAIN table \cup {key} |-> IF k \in DOMAIN table THEN table[k] ELSE row]

\* variant of the predict_fev1 call that stores a row for a key it missed
Call_predict_fev1_Caching(male, age, height) ==
    /\ last' = Call("predict_fev1", male, age, height, None,
                    predict_fev1(lookup_table, male, age, height))
    /\ lookup_table' = WithRow(lookup_table, <<male, "fev1", age>>, RowFor("fev1"))

Call_predict_fev1(male, age, height) ==
    /\ last' = Call("predict_fev1", male, age, height, None,
                    predict_fev1(lookup_table, male, age, height))
    /\ UNCHANGED lookup_table

Call_predict_fvc(male, age, height) ==
    /\ last' = Call("predict_fvc", male, age, height, None,
                    predict_fvc(lookup_table, male, age, height))
    /\ UNCHANGED lookup_table

Call_predict_fev1fvc(male, age, height) ==
    /\ last' = Call("predict_fev1fvc", male, age, height, None,
                    predict_fev1fvc(lookup_table, male, age, height))
    /\ UNCHANGED lookup_table

Call_zscore_fev1(male, age, height, measured) ==
    /\ last' = Call("zscore_fev1", male, age, height, measured,
                    zscore_fev1(lookup_table, male, age, height, measured))
    /\ UNCHANGED lookup_table

\* variant of the zscore_fvc call that stores a row for a key it missed
Call_zscore_fvc_Caching(male, age, height, measured) ==
    /\ last' = Call("zscore_fvc", male, age, height, measured,
                    zscore_fvc(lookup_table, male, age, height, measured))
    /\ lookup_table' = WithRow(lookup_table, <<male, "fvc", age>>, RowFor("fvc"))

Call_zscore_fvc(male, age, height, measured) ==
    /\ last' = Call("zscore_fvc", male, age, height, measured,
                    zscore_fvc(lookup_table, male, age, height, measured))
    /\ UNCHANGED lookup_table

Call_zscore_fev1fvc(male, age, height, measured) ==
    /\ last' = Call("zscore_fev1fvc", male, age, height, measured,
                    zscore_fev1fvc(lookup_table, male, age, height, measured))
    /\ UNCHANGED lookup_table

\* what a caller may pass as the measured value: one of Measurements, or the
\* number the preceding predict call returned for the same subject
Fed(male, age, height) ==
    IF /\ last.op \in PredictOps
       /\ last.out.st = "return"
       /\ <<last.male, last.age, last.height>> = <<male, age, height>>
    THEN {last.out.val}
    ELSE {}

\* a call in a behaviour that keeps no history
Plain(call) == call /\ UNCHANGED hist

Next ==
    \/ \E male \in Sexes, age \in Ages, height \in Heights :
          Plain(Call_predict_fev1(male, age, height))
    \/ \E male \in Sexes, age \in Ages, height \in Heights :
          Plain(Call_predict_fvc(male, age, height))
    \/ \E male \in Sexes, age \in Ages, height \in Heights :
          Plain(Call_predict_fev1fvc(male, age, height))
    \/ \E male \in Sexes, age \in Ages, height \in Heights :
          \E measured \in Measurements \cup Fed(male, age, height) :
             Plain(Call_zscore_fev1(male, age, height, measured))
    \/ \E male \in Sexes, age \in Ages, height \in Heights :
          \E measured \in Measurements \cup Fed(male, age, height) :
             Plain(Call_zscore_fvc(male, age, height, measured))
    \/ \E male \in Sexes, age \in Ages, height \in Heights :
          \E measured \in Measurements \cup Fed(male, age, height) :
             Plain(Call_zscore_fev1fvc(male, age, height, measured))

Spec == Init /\ [][Next]_vars

(***************************************************************************)
(* SpecH: the same operations over fewer arguments, with the history kept, *)
(* for runs of up to MaxCalls calls.                                       *)
(***************************************************************************)
MaxCalls == 3

HAges         == {50, 51}
HHeights      == {170}
HMeasurements == {None, Fin(8240)}

\* a call in a behaviour that keeps the history
Tracked(call) ==
    /\ hist.calls < MaxCalls
    /\ call
    /\ hist' = [first   |-> IF hist.calls = 0 THEN last' ELSE hist.first,
                calls   |-> hist.calls + 1,
                between |-> hist.between \/ (hist.calls >= 2 /\ last.out.st = "ValueError")]

NextH ==
    \/ \E male \in Sexes, age \in HAges, height \in HHeights :
          Tracked(Call_predict_fev1(male, age, height))
    \/ \E male \in Sexes, age \in HAges, height \in HHeights :
          Tracked(Call_predict_fvc(male, age, height))
    \/ \E male \in Sexes, age \in HAges, height \in HHeights :
          Tracked(Call_predict_fev1fvc(male, age, height))
    \/ \E male \in Sexes, age \in HAges, height \in HHeights :
          \E measured \in HMeasurements :
             Tracked(Call_zscore_fev1(male, age, height, measured))
    \/ \E male \in Sexes, age \in HAges, height \in HHeights :
          \E measured \in HMeasurements :
             Tracked(Call_zscore_fvc(male, age, height, measured))
    \/ \E male \in Sexes, age \in HAges, height \in HHeights :
          \E measured \in HMeasurements :
             Tracked(Call_zscore_fev1fvc(male, age, height, measured))

SpecH == Init /\ [][NextH]_vars

(***************************************************************************)
(* Vocabulary of the properties.                                           *)
(***************************************************************************)
Called        == last.op # "none"
IsZscoreCall  == last.op \in ZscoreOps
KeyPresent    == <<last.male, ParamOf(last.op), last.age>> \in DOMAIN lookup_table
SexRecognized == last.male \in {0, 1}

RaisedLookup == last.out.st = "ValueError" /\ last.out.msg = NotInLookup
RaisedBadSex == last.out.st = "ValueError" /\ last.out.msg = BadSex

MeasuredMsg(op) ==
    IF op = "zscore_fev1" THEN "Invalid measured_fev1"
    ELSE IF op = "zscore_fvc" THEN "Invalid measured_fvc"
    ELSE "Invalid measured_fev1fvc"

RaisedBadMeasured ==
    /\ IsZscoreCall
    /\ last.out.st = "ValueError"
    /\ last.out.msg = MeasuredMsg(last.op)

\* the measured value is absent or <= 0 / is a number strictly above 0
AbsentOrNonPositive(x) == x = None \/ x = NInf \/ (IsFin(x) /\ x.v <= 0)
StrictlyPositive(x)    == x = PInf \/ (IsFin(x) /\ x.v > 0)

\* how the predict operation of the latest call's parameter ends on its subject
PredictOfLast ==
    IF ParamOf(last.op) = "fev1"
    THEN predict_fev1(lookup_table, last.male, last.age, last.height)
    ELSE IF ParamOf(last.op) = "fvc"
    THEN predict_fvc(lookup_table, last.male, last.age, last.height)
    ELSE predict_fev1fvc(lookup_table, last.male, last.age, last.height)

\* S and L of the published reference equations, for sex codes 0 and 1
RefS(param, male, age, s_spline) ==
    LET lna == Log(FromInt(age))
        e   == IF param = "fev1"
               THEN (IF male = 1 THEN Add(Lit(-22562780), CMul(807290, lna))
                                 ELSE Add(Lit(-23640470), CMul(1294020, lna)))
               ELSE IF param = "fvc"
               THEN (IF male = 1 THEN Add(Lit(-21955950), CMul(684660, lna))
                                 ELSE Add(Lit(-23101480), CMul(1204280, lna)))
               ELSE (IF male = 1 THEN Add(Lit(-28820240), CMul(688890, lna))
                                 ELSE Add(Lit(-31715820), CMul(1443580, lna)))
    IN  Exp(Add(e, s_spline))

RefL(param, male, age) ==
    LET lna == Log(FromInt(age))
    IN  IF param = "fev1" THEN (IF male = 1 THEN Lit(12270300) ELSE Lit(12138800))
        ELSE IF param = "fvc" THEN (IF male = 1 THEN Lit(9346000) ELSE Lit(8990000))
        ELSE (IF male = 1 THEN Sub(Lit(38243000), CMul(3328000, lna))
                          ELSE Sub(Lit(66490000), CMul(9920000, lna)))

RefSOfLast ==
    RefS(ParamOf(last.op), last.male, last.age,
         lookup_table[<<last.male, ParamOf(last.op), last.age>>].S_Spline)
RefLOfLast == RefL(ParamOf(last.op), last.male, last.age)

\* ((measured / M)^L - 1) / (L S)
LmsTransform(measured, m, s, l) ==
    Div(Sub(Pow(Div(measured, m), l), Fin(ONE)), Mul(l, s))

SameCall(a, b) ==
    /\ a.op = b.op
    /\ a.male = b.male
    /\ a.age = b.age
    /\ a.height = b.height
    /\ a.measured = b.measured

(***************************************************************************)
(* Properties.                                                             *)
(***************************************************************************)

\* C1 (as claimed): every call whose sex code is neither 0 nor 1 fails with
\* the error "sex (male) should be 0 or 1.", whatever the other arguments.
C1_BadSexAlwaysReported ==
    (Called /\ ~SexRecognized) => RaisedBadSex

\* C2 (as claimed): every z-score call whose measured value is absent or <= 0
\* fails with the invalid-measurement error carrying that value, and a call
\* with a measured value > 0, a recognized sex and a key in the table does not
\* raise it.
C2_BadMeasuredAlwaysReported ==
    IsZscoreCall =>
       /\ AbsentOrNonPositive(last.measured)
             => (RaisedBadMeasured /\ last.out.val = last.measured)
       /\ (StrictlyPositive(last.measured) /\ SexRecognized /\ KeyPresent)
             => ~RaisedBadMeasured

\* C2 (amended): in a z-score call whose key is in the table and whose sex
\* code is 0 or 1, a measured value that is absent or <= 0 fails with the
\* invalid-measurement error carrying that value, and a measured value > 0
\* does not raise it.
C2_BadMeasuredReported ==
    (IsZscoreCall /\ KeyPresent /\ SexRecognized) =>
       /\ AbsentOrNonPositive(last.measured)
             => (RaisedBadMeasured /\ last.out.val = last.measured)
       /\ StrictlyPositive(last.measured) => ~RaisedBadMeasured

C2_Witness ==
    /\ IsZscoreCall /\ KeyPresent /\ SexRecognized
    /\ last.measured = Zero
    /\ RaisedBadMeasured
    /\ last.out.val = Zero

\* C3: when the exact key (sex, parameter, age) is not in the table the call
\* fails with "Participant value not present in lookup"; it returns no number,
\* also when a neighbouring age is in the table.
C3_AbsentKeyRaisesLookup ==
    (Called /\ ~KeyPresent) => RaisedLookup

C3_Witness ==
    /\ Called
    /\ last.age = 51
    /\ <<last.male, ParamOf(last.op), 50>> \in DOMAIN lookup_table
    /\ ~KeyPresent
    /\ RaisedLookup

\* C4 (as claimed): a call with height <= 0, a recognized sex and a key in
\* the table ends in an error; it returns no number.
C4_NonPositiveHeightRaises ==
    (Called /\ last.height <= 0 /\ SexRecognized /\ KeyPresent)
       => last.out.st = "ValueError"

\* C5 (as claimed): a z-score call in which L evaluates to 0 returns the
\* limiting form ln(measured / M) / S (and so does not divide by L S = 0).
C5_ZeroSkewnessUsesLimit ==
    (/\ IsZscoreCall /\ KeyPresent /\ SexRecognized
     /\ StrictlyPositive(last.measured)
     /\ last.height > 0
     /\ RefLOfLast = Zero)
       => last.out = Return(Div(Log(Div(last.measured, PredictOfLast.val)), RefSOfLast))

\* C6 (as claimed): whenever predict_X returns a number for (sex, age,
\* height), zscore_X of the same subject with that number as the measured
\* value returns 0.
C6_RoundTripIsZero ==
    (/\ IsZscoreCall
     /\ PredictOfLast.st = "return"
     /\ last.measured = PredictOfLast.val)
       => last.out = Return(Zero)

\* C7: no call changes the lookup table: every step leaves it as it was.
C7_TableNeverChanges == [][lookup_table' = lookup_table]_vars

C7_Witness ==
    /\ Called
    /\ last.out.st = "ValueError"
    /\ lookup_table = CustomFile

\* C8: a call made again later in the behaviour, whatever calls came in
\* between (failed ones included), ends as it ended the first time.
C8_SameCallSameOutcome ==
    (hist.calls >= 1 /\ SameCall(hist.first, last)) => last.out = hist.first.out

C8_Witness ==
    /\ hist.calls = 3
    /\ hist.between
    /\ SameCall(hist.first, last)
    /\ last.out.st = "return"

\* C9: a z-score call fails as the matching predict call fails on the same
\* (sex, age, height), whatever the measured value; and when predict returns
\* M and the measured value passes its test, the z-score returned is the LMS
\* transform of the measured value at that M.
C9_ZscoreAgreesWithPredict ==
    IsZscoreCall =>
       IF PredictOfLast.st = "ValueError"
       THEN last.out.st = "ValueError" /\ last.out.msg = PredictOfLast.msg
       ELSE StrictlyPositive(last.measured)
               => last.out = Return(LmsTransform(last.measured, PredictOfLast.val,
                                                 RefSOfLast, RefLOfLast))

C9_Witness ==
    /\ IsZscoreCall
    /\ PredictOfLast.st = "return"
    /\ IsFin(PredictOfLast.val) /\ PredictOfLast.val.v > 0
    /\ last.measured = Fin(8240)
    /\ last.out.st = "return"
    /\ IsFin(last.out.val) /\ last.out.val.v # 0

\* C10: the checks come in a fixed order: the lookup first, the sex code
\* second, the measured value last.  An absent key is reported whatever else
\* is wrong; a sex code other than 0 and 1 under a key that is in the table is
\* reported whatever the measured value; the invalid-measurement error is
\* reported only with the key in the table and the sex code 0 or 1; and over a
\* table whose sex codes are all 0 or 1 the sex error is never reported.
C10_ValidationOrder ==
    Called =>
       /\ ~KeyPresent => RaisedLookup
       /\ (KeyPresent /\ ~SexRecognized) => RaisedBadSex
       /\ RaisedBadMeasured => (KeyPresent /\ SexRecognized)
       /\ (\A key \in DOMAIN lookup_table : key[1] \in {0, 1}) => ~RaisedBadSex

C10_Witness ==
    /\ IsZscoreCall
    /\ KeyPresent /\ ~SexRecognized
    /\ last.measured = None
    /\ RaisedBadSex

====
